---- MODULE Spec2Model ----
(***************************************************************************)
(* The revision publish / environment toggle workflow of                   *)
(* packages/back-end/src/models/FeatureModel.ts, for one feature of one    *)
(* organization.  The stores (feature document, revisions, experiments,    *)
(* safe rollouts) are the state; every exported operation is a call that   *)
(* runs in a slot, one action per synchronous stretch between two awaits,  *)
(* so that calls working from earlier snapshots interleave as they do on   *)
(* the event loop.                                                         *)
(***************************************************************************)
EXTENDS Integers, Sequences, FiniteSets, TLC

VARIABLES
    feature,        \* the stored feature document (FeatureModel collection)
    revisions,      \* revision store: version -> status
    lastPublished,  \* version of the revision marked published most recently
    experiments,    \* experiment ids whose linkedFeatures contain this feature
    safeRollouts,   \* safe-rollout store: id -> document
    srPending,      \* safeRollout.update calls issued and not yet applied
    calls,          \* slot -> the call running in it (arguments, locals, position)
    started,        \* number of calls begun so far
    now             \* the clock read by new Date()

vars == <<feature, revisions, lastPublished, experiments, safeRollouts, srPending, calls, started, now>>

(***************************************************************************)
(* Bounds of the model.                                                    *)
(***************************************************************************)
MaxCalls == 2

MaxNow == 1

\* the longest linkedExperiments array getLinkedExperiments is applied to
MaxLinks == 2
\* the largest rule index, counting from 0, an edit asks for
MaxIndex == 2

Slots == {"s1", "s2"}

(***************************************************************************)
(* The organization's environments, in the order getEnvironmentIdsFromOrg  *)
(* returns them, and one environment id the organization does not have.    *)
(***************************************************************************)
OrgEnvs == <<"production", "staging", "dev">>

UnknownEnv == "legacy"

Range(s) == {s[i] : i \in DOMAIN s}

validEnvs == Range(OrgEnvs)

AllEnvs == OrgEnvs \o <<UnknownEnv>>

Undefined == "undefined"

NoDate == -1

(***************************************************************************)
(* Rules.  One record shape for every variant of FeatureRule; the fields   *)
(* a variant does not have are "".                                         *)
(***************************************************************************)
Rule(type, experimentId, safeRolloutId, status, scheduleRules) ==
    [type |-> type, experimentId |-> experimentId,
     safeRolloutId |-> safeRolloutId, status |-> status,
     scheduleRules |-> scheduleRules]

ruleA == Rule("force", "", "", "", <<>>)

ruleX == Rule("experiment-ref", "X", "", "", <<>>)

ruleY == Rule("experiment-ref", "Y", "", "", <<>>)

ruleS == Rule("safe-rollout", "", "sr1", "running", <<>>)
ruleR == Rule("safe-rollout", "", "sr1", "released", <<>>)
ruleB == Rule("safe-rollout", "", "sr2", "rolled-back", <<>>)
ruleU == Rule("safe-rollout", "", "sr2", "running", <<>>)

ruleZ == Rule("experiment-ref", "Z", "", "", <<>>)

\* a force rule with two scheduleRules timestamps
ruleT == Rule("force", "", "", "", <<1, 2>>)

EmptyMap == [e \in {} |-> <<>>]

\* m with key k bound to v (object property assignment m[k] = v)
Put(m, k, v) == [x \in (DOMAIN m) \cup {k} |-> IF x = k THEN v ELSE m[x]]

\* { ...a, ...b }: the properties of b over those of a
Spread(a, b) == [x \in (DOMAIN a) \cup (DOMAIN b) |-> IF x \in DOMAIN b THEN b[x] ELSE a[x]]

\* Set.add on a Set kept in insertion order
SetAdd(s, x) == IF x \in Range(s) THEN s ELSE Append(s, x)

RECURSIVE SetFrom(_)
\* new Set(array): the elements in first-occurrence order
SetFrom(s) == IF s = <<>> THEN <<>> ELSE SetAdd(SetFrom(SubSeq(s, 1, Len(s) - 1)), s[Len(s)])


(***************************************************************************)
(* getLinkedExperiments (FeatureModel.ts 1082-1103).                       *)
(***************************************************************************)
RECURSIVE AddRuleExperiments(_, _)
\* rules.forEach: add the experimentId of every experiment-ref rule
AddRuleExperiments(expIds, rules) ==
    IF rules = <<>> THEN expIds
    ELSE AddRuleExperiments(
            IF Head(rules).type = "experiment-ref"
            THEN SetAdd(expIds, Head(rules).experimentId)
            ELSE expIds,
            Tail(rules))

RECURSIVE AddEnvExperiments(_, _, _)
\* environments.forEach: skip an environment without a rule list
AddEnvExperiments(expIds, f, environments) ==
    IF environments = <<>> THEN expIds
    ELSE LET env == Head(environments)
             next == IF env \in DOMAIN f.environmentSettings
                     THEN AddRuleExperiments(expIds, f.environmentSettings[env].rules)
                     ELSE expIds
         IN AddEnvExperiments(next, f, Tail(environments))

\* getLinkedExperiments gone wrong: the experiments of the rules come
\* before the existing links
RulesBeforeLinks(f, environments) ==
    SetFrom(AddEnvExperiments(<<>>, f, environments) \o f.linkedExperiments)

\* getLinkedExperiments gone wrong: the experiments of the rules are
\* appended to the existing array, whatever it holds
AppendToLinks(f, environments) ==
    f.linkedExperiments \o AddEnvExperiments(<<>>, f, environments)

getLinkedExperiments(f, environments) ==
    AddEnvExperiments(SetFrom(f.linkedExperiments), f, environments)

(***************************************************************************)
(* toInterface (167-177): the document with the environments the          *)
(* organization derives from a parent filled in from the parent's         *)
(* settings.  In this organization staging inherits from production and   *)
(* dev has no parent.                                                      *)
(***************************************************************************)
EnvParents == [staging |-> "production"]

applyEnvironmentInheritance(envRecord) ==
    LET inherited == {e \in DOMAIN EnvParents :
                        e \notin DOMAIN envRecord /\ EnvParents[e] \in DOMAIN envRecord}
    IN [e \in (DOMAIN envRecord) \cup inherited |->
            IF e \in DOMAIN envRecord THEN envRecord[e] ELSE envRecord[EnvParents[e]]]

toInterface(doc) ==
    [doc EXCEPT !.environmentSettings = applyEnvironmentInheritance(doc.environmentSettings)]

\* setEnvironmentSettings gone wrong: the existing settings of the
\* environment are not spread under the partial settings
SetSettingsFromDefault(f, environment, settings) ==
    LET es == f.environmentSettings
    IN [f EXCEPT !.environmentSettings =
            Put(es, environment, Spread([enabled |-> FALSE, rules |-> <<>>], settings))]

(***************************************************************************)
(* setEnvironmentSettings (712-729): a deep copy of the feature with the   *)
(* environment's settings (created disabled and without rules when         *)
(* missing) overlaid by the partial settings.                              *)
(***************************************************************************)
setEnvironmentSettings(f, environment, settings) ==
    LET es == f.environmentSettings
        current == IF environment \in DOMAIN es
                   THEN es[environment]
                   ELSE [enabled |-> FALSE, rules |-> <<>>]
    IN [f EXCEPT !.environmentSettings = Put(es, environment, Spread(current, settings))]

(***************************************************************************)
(* The forEach of toggleMultipleEnvironments (740-752) over                *)
(* Object.keys(toggles); toggles is the sequence of <<env, state>> pairs   *)
(* in key order.  acc carries the feature passed in, featureCopy (its deep *)
(* copy), hasChanges and the error thrown, if any; the current state is    *)
(* read from the feature passed in.                                        *)
(***************************************************************************)
RECURSIVE ToggleLoopSkipInvalid(_, _)
\* ToggleLoop gone wrong: an unknown environment is skipped, not refused
ToggleLoopSkipInvalid(toggles, acc) ==
    IF toggles = <<>> THEN acc
    ELSE LET env == Head(toggles)[1]
             state == Head(toggles)[2]
             es == acc.feature.environmentSettings
             currentState == IF env \in DOMAIN es THEN es[env].enabled ELSE FALSE
         IN IF env \notin validEnvs
            THEN ToggleLoopSkipInvalid(Tail(toggles), acc)
            ELSE IF currentState # state
            THEN ToggleLoopSkipInvalid(Tail(toggles),
                    [acc EXCEPT !.hasChanges = TRUE,
                                !.featureCopy = setEnvironmentSettings(
                                    acc.featureCopy, env, [enabled |-> state])])
            ELSE ToggleLoopSkipInvalid(Tail(toggles), acc)

RECURSIVE ToggleLoopNoDefault(_, _)
\* ToggleLoop gone wrong: the current state of an environment without
\* settings is undefined, not false, and so differs from any desired state
ToggleLoopNoDefault(toggles, acc) ==
    IF toggles = <<>> THEN acc
    ELSE LET env == Head(toggles)[1]
             state == Head(toggles)[2]
             es == acc.feature.environmentSettings
             differs == IF env \in DOMAIN es THEN es[env].enabled # state ELSE TRUE
         IN IF env \notin validEnvs
            THEN [acc EXCEPT !.error = "InvalidEnvironment"]
            ELSE IF differs
            THEN ToggleLoopNoDefault(Tail(toggles),
                    [acc EXCEPT !.hasChanges = TRUE,
                                !.featureCopy = setEnvironmentSettings(
                                    acc.featureCopy, env, [enabled |-> state])])
            ELSE ToggleLoopNoDefault(Tail(toggles), acc)

RECURSIVE ToggleLoop(_, _)
ToggleLoop(toggles, acc) ==
    IF toggles = <<>> THEN acc
    ELSE LET env == Head(toggles)[1]
             state == Head(toggles)[2]
             es == acc.feature.environmentSettings
             currentState == IF env \in DOMAIN es THEN es[env].enabled ELSE FALSE
         IN IF env \notin validEnvs
            THEN [acc EXCEPT !.error = "InvalidEnvironment"]
            ELSE IF currentState # state
            THEN ToggleLoop(Tail(toggles),
                    [acc EXCEPT !.hasChanges = TRUE,
                                !.featureCopy = setEnvironmentSettings(
                                    acc.featureCopy, env, [enabled |-> state])])
            ELSE ToggleLoop(Tail(toggles), acc)

(***************************************************************************)
(* getNextScheduledUpdate (services/features): the earliest scheduleRules  *)
(* timestamp after the current time over the rules of the given            *)
(* environments, NoDate when there is none.                                *)
(***************************************************************************)
ScheduleDates(envSettings, environments) ==
    UNION {UNION {Range(envSettings[e].rules[i].scheduleRules) :
                    i \in DOMAIN envSettings[e].rules} :
           e \in Range(environments) \cap DOMAIN envSettings}

getNextScheduledUpdate(envSettings, environments, date) ==
    LET future == {t \in ScheduleDates(envSettings, environments) : t > date}
    IN IF future = {} THEN NoDate
       ELSE CHOOSE t \in future : \A u \in future : t <= u

(***************************************************************************)
(* applyRevisionChanges, the synchronous part (1014-1048): the staged      *)
(* changes, or no changes.                                                 *)
(***************************************************************************)
RECURSIVE StageKeys(_, _, _, _)
StageKeys(changes, f, result, environments) ==
    IF environments = <<>> THEN changes
    ELSE LET env == Head(environments)
         IN IF env \notin DOMAIN result.rules
            THEN StageKeys(changes, f, result, Tail(environments))
            ELSE LET es == IF "environmentSettings" \in DOMAIN changes
                           THEN changes.environmentSettings
                           ELSE f.environmentSettings
                     enabled == IF env \in DOMAIN es THEN es[env].enabled ELSE FALSE
                     settings == [enabled |-> enabled, rules |-> result.rules[env]]
                 IN StageKeys(
                        Put(changes, "environmentSettings", Put(es, env, settings)),
                        f, result, Tail(environments))

\* StageEnvironments gone wrong: the loop runs over the keys of the merge
\* result's rules instead of the organization's environments
StageEveryKey(changes, f, result, environments) ==
    StageKeys(changes, f, result, AllEnvs)

\* StageEnvironments gone wrong: the environment the organization no
\* longer has is still among the environments looped over
StageLegacyToo(changes, f, result, environments) ==
    StageKeys(changes, f, result, environments \o <<UnknownEnv>>)

\* StageEnvironments gone wrong: an empty rule list is skipped like a
\* missing one
StageNonEmpty(changes, f, result, environments) ==
    StageKeys(changes, f,
              [result EXCEPT !.rules =
                  [e \in {k \in DOMAIN result.rules : result.rules[k] # <<>>} |->
                      result.rules[e]]],
              environments)

RECURSIVE StageDisabled(_, _, _, _)
\* StageEnvironments gone wrong: the staged settings start from a fresh
\* object, so the enabled flag is lost
StageDisabled(changes, f, result, environments) ==
    IF environments = <<>> THEN changes
    ELSE LET env == Head(environments)
         IN IF env \notin DOMAIN result.rules
            THEN StageDisabled(changes, f, result, Tail(environments))
            ELSE LET es == IF "environmentSettings" \in DOMAIN changes
                           THEN changes.environmentSettings
                           ELSE f.environmentSettings
                     settings == [enabled |-> FALSE, rules |-> result.rules[env]]
                 IN StageDisabled(
                        Put(changes, "environmentSettings", Put(es, env, settings)),
                        f, result, Tail(environments))

RECURSIVE StageEnvironments(_, _, _, _)
\* environments.forEach (1023-1035); changes has no environmentSettings
\* until the first environment with rules in the merge result
StageEnvironments(changes, f, result, environments) ==
    IF environments = <<>> THEN changes
    ELSE LET env == Head(environments)
         IN IF env \notin DOMAIN result.rules
            THEN StageEnvironments(changes, f, result, Tail(environments))
            ELSE LET es == IF "environmentSettings" \in DOMAIN changes
                           THEN changes.environmentSettings
                           ELSE f.environmentSettings
                     enabled == IF env \in DOMAIN es THEN es[env].enabled ELSE FALSE
                     settings == [enabled |-> enabled, rules |-> result.rules[env]]
                 IN StageEnvironments(
                        Put(changes, "environmentSettings", Put(es, env, settings)),
                        f, result, Tail(environments))

\* StageChanges gone wrong: hasChanges is computed after the version was
\* staged, so there always are changes
StageChangesAfterVersion(f, revision, result, date) ==
    LET c1 == IF result.defaultValue # Undefined
              THEN [defaultValue |-> result.defaultValue]
              ELSE EmptyMap
        c2 == StageEnvironments(c1, f, result, OrgEnvs)
        c3 == IF "environmentSettings" \in DOMAIN c2
              THEN Put(c2, "nextScheduledUpdate",
                       getNextScheduledUpdate(c2.environmentSettings, OrgEnvs, date))
              ELSE c2
        c4 == Put(c3, "version", revision.version)
    IN [hasChanges |-> DOMAIN c4 # {}, changes |-> c4]

StageChanges(f, revision, result, date) ==
    LET c1 == IF result.defaultValue # Undefined
              THEN [defaultValue |-> result.defaultValue]
              ELSE EmptyMap
        c2 == StageEnvironments(c1, f, result, OrgEnvs)
        c3 == IF "environmentSettings" \in DOMAIN c2
              THEN Put(c2, "nextScheduledUpdate",
                       getNextScheduledUpdate(c2.environmentSettings, OrgEnvs, date))
              ELSE c2
    IN [hasChanges |-> DOMAIN c2 # {},
        changes |-> Put(c3, "version", revision.version)]

(***************************************************************************)
(* hasDraft (FeatureRevisionModel): some revision other than the excluded  *)
(* versions is neither published nor discarded.                            *)
(***************************************************************************)
hasDraft(revs, excludeVersions) ==
    \E v \in DOMAIN revs :
        v \notin excludeVersions /\ revs[v] \notin {"published", "discarded"}

(***************************************************************************)
(* updateFeature, the synchronous part (620-645): the $set document, the   *)
(* feature returned and the experiments newly linked.                      *)
(***************************************************************************)
\* PrepareUpdate gone wrong: the recomputed list is always written, and
\* every experiment in it is linked again
RelinkAlways(f, updates) ==
    LET merged == Spread(f, updates)
        linkedExperiments == getLinkedExperiments(merged, OrgEnvs)
    IN [allUpdates |-> Put(updates, "linkedExperiments", linkedExperiments),
        updatedFeature |-> Put(merged, "linkedExperiments", linkedExperiments),
        experimentsAdded |-> Range(linkedExperiments)]

PrepareUpdate(f, updates) ==
    LET merged == Spread(f, updates)
        linkedExperiments == getLinkedExperiments(merged, OrgEnvs)
        changed == linkedExperiments # f.linkedExperiments
    IN [allUpdates |-> IF changed
                       THEN Put(updates, "linkedExperiments", linkedExperiments)
                       ELSE updates,
        updatedFeature |-> IF changed
                           THEN Put(merged, "linkedExperiments", linkedExperiments)
                           ELSE merged,
        experimentsAdded |-> IF changed
                             THEN Range(linkedExperiments) \ Range(f.linkedExperiments)
                             ELSE {}]

(***************************************************************************)
(* updateSafeRolloutStatuses, the status map (959-980): the status each    *)
(* safe-rollout rule of the revision declares, and stopped for every safe  *)
(* rollout of the live settings the revision does not mention.             *)
(***************************************************************************)
RECURSIVE FromEntries(_, _)
\* Object.fromEntries over the safe-rollout rules: a later entry wins
FromEntries(map, rules) ==
    IF rules = <<>> THEN map
    ELSE FromEntries(
            IF Head(rules).type = "safe-rollout"
            THEN Put(map, Head(rules).safeRolloutId, Head(rules).status)
            ELSE map,
            Tail(rules))

\* StopRemoved gone wrong: the safe rollouts of the live settings are not
\* looked at
StopNothing(map, rules) == map

RECURSIVE StopRemoved(_, _)
StopRemoved(map, rules) ==
    IF rules = <<>> THEN map
    ELSE StopRemoved(
            IF Head(rules).type = "safe-rollout" /\ Head(rules).safeRolloutId \notin DOMAIN map
            THEN Put(map, Head(rules).safeRolloutId, "stopped")
            ELSE map,
            Tail(rules))

\* the rule lists of a map of environments, concatenated in key order
RECURSIVE RulesOf(_, _)
RulesOf(byEnv, envOrder) ==
    IF envOrder = <<>> THEN <<>>
    ELSE (IF Head(envOrder) \in DOMAIN byEnv THEN byEnv[Head(envOrder)] ELSE <<>>)
         \o RulesOf(byEnv, Tail(envOrder))

safeRolloutStatusesMap(f, revision) ==
    LET live == [e \in DOMAIN f.environmentSettings |-> f.environmentSettings[e].rules]
    IN StopRemoved(FromEntries(EmptyMap, RulesOf(revision.rules, AllEnvs)),
                   RulesOf(live, AllEnvs))

\* safeRolloutUpdates gone wrong: a running safe rollout is started again
\* although it has a start time
RestartRunning(safeRollout, status, date) ==
    IF status = "running"
    THEN [status |-> status, startedAt |-> date,
          nextSnapshotAttempt |-> date, rampUpNextUpdate |-> date]
    ELSE [status |-> status]

\* the update of one safe rollout (986-1004)
safeRolloutUpdates(safeRollout, status, date) ==
    IF safeRollout.startedAt = NoDate /\ status = "running"
    THEN [status |-> status, startedAt |-> date,
          nextSnapshotAttempt |-> date, rampUpNextUpdate |-> date]
    ELSE [status |-> status]

(***************************************************************************)
(* The inputs the callers choose from.                                     *)
(***************************************************************************)
MergeResult(defaultValue, rules) == [defaultValue |-> defaultValue, rules |-> rules]

\* the rules each revision of the feature holds
RevisionRules ==
    << [production |-> <<ruleX>>],
       [production |-> <<ruleA>>],
       [production |-> <<ruleS, ruleT>>, staging |-> <<ruleY>>],
       EmptyMap >>

\* the merge results a caller may have computed for each revision
MergeResults ==
    << { MergeResult(Undefined, EmptyMap),
         MergeResult(Undefined, [production |-> <<ruleA>>]) },
       { MergeResult(Undefined, EmptyMap),
         MergeResult("b", EmptyMap),
         MergeResult(Undefined, [production |-> <<ruleA>>]),
         MergeResult(Undefined, [legacy |-> <<ruleA>>]),
         MergeResult(Undefined, [dev |-> <<>>]) },
       { MergeResult(Undefined, [staging |-> <<ruleY>>]),
         MergeResult("b", [production |-> <<ruleS, ruleT>>, legacy |-> <<ruleA>>]) },
       { MergeResult(Undefined, [production |-> <<ruleA>>]) } >>

ToggleMaps ==
    { << <<"production", FALSE>>, <<"dev", TRUE>> >>,
      << <<"production", TRUE>>, <<"dev", FALSE>> >>,
      << <<"staging", FALSE>>, <<"legacy", TRUE>> >> }

ExperimentIds == {"X", "Z"}

Versions == DOMAIN RevisionRules

(***************************************************************************)
(* State.                                                                  *)
(***************************************************************************)
NoFeature ==
    [version |-> 0, defaultValue |-> "", archived |-> FALSE,
     environmentSettings |-> EmptyMap, linkedExperiments |-> <<>>,
     hasDrafts |-> FALSE, nextScheduledUpdate |-> NoDate]

NoRevision == [version |-> 0, status |-> "", rules |-> EmptyMap]

IdleCall ==
    [op |-> "none", pc |-> "idle",
     given |-> NoFeature,           \* the feature argument as it was passed
     feature |-> NoFeature,         \* the feature argument object
     revision |-> NoRevision,       \* the revision argument object
     loaded |-> NoRevision,         \* the revision argument as it was passed
     revisionStored |-> NoRevision, \* the revision as this call's updateRevision wrote it
     deleted |-> 0,                 \* revisions this call's deleteAllRevisionsForFeature removed
     result |-> MergeResult(Undefined, EmptyMap),
     toggles |-> <<>>, isArchived |-> FALSE, experimentId |-> "",
     changes |-> EmptyMap,          \* applyRevisionChanges' changes
     allUpdates |-> EmptyMap,       \* updateFeature's $set document
     updatedFeature |-> NoFeature,
     pendingLinks |-> {},           \* experimentsAdded not yet linked
     error |-> "", returned |-> NoFeature,
     stored |-> NoFeature,          \* the document right after this call's write
     writes |-> 0,                  \* writes of the feature document
     notifications |-> 0,           \* onFeatureUpdate invocations
     notifier |-> "none",           \* the promise of the last onFeatureUpdate
     logged |-> "",                 \* the step whose error the catch handler logged
     linked |-> {},                 \* addLinkedFeatureToExperiment calls made
     revisionWrites |-> 0,          \* markRevisionAsPublished calls made
     srUpdates |-> 0,               \* safeRollout.update calls issued
     date |-> NoDate,               \* new Date() of the scan's query
     features |-> <<>>,             \* the documents the scan's find returned
     scheduled |-> <<>>,            \* the features the scan returned
     links |-> <<>>,                \* getLinkedExperiments' result
     linksAgain |-> <<>>]           \* its result on the feature with that result

\* the feature as createFeature stored it, before the organization added
\* the environments staging and dev
InitialFeature ==
    [version |-> 1, defaultValue |-> "a", archived |-> FALSE,
     environmentSettings |-> [production |-> [enabled |-> TRUE, rules |-> <<ruleX>>]],
     linkedExperiments |-> <<"X">>,
     hasDrafts |-> TRUE, nextScheduledUpdate |-> NoDate]

Init ==
    /\ feature = InitialFeature
    /\ revisions = <<"published", "draft", "draft", "discarded">>
    /\ lastPublished = 1
    /\ experiments = {"X"}
    /\ safeRollouts = [sr1 |-> [status |-> "running", startedAt |-> NoDate,
                                nextSnapshotAttempt |-> NoDate,
                                rampUpNextUpdate |-> NoDate]]
    /\ srPending = {}
    /\ calls = [s \in Slots |-> IdleCall]
    /\ started = 0
    /\ now = 0

SlotOrder == [s1 |-> 1, s2 |-> 2]

Free(s) == calls[s].pc \in {"idle", "done", "failed"}

\* a caller may invoke an operation: the call runs in the first free slot
Invoke(s) ==
    /\ Free(s)
    /\ \A t \in Slots : Free(t) => s = t \/ SlotOrder[s] < SlotOrder[t]
    /\ started < MaxCalls
    /\ started' = started + 1

\* the caller loads the feature (getFeature, toInterface) and passes it
NewCall(op) ==
    [IdleCall EXCEPT !.op = op, !.pc = "start",
                     !.given = toInterface(feature),
                     !.feature = toInterface(feature)]

\* the locals of a call that has returned or thrown are gone
Leave(c, pc) ==
    [c EXCEPT !.pc = pc, !.changes = EmptyMap, !.allUpdates = EmptyMap,
              !.updatedFeature = NoFeature, !.pendingLinks = {}]

Throw(c, error) == [Leave(c, "failed") EXCEPT !.error = error]

\* updateFeature(feature, updates) is entered and runs to its first await
EnterUpdateFeature(c, updates) ==
    LET p == PrepareUpdate(c.feature, updates)
    IN [c EXCEPT !.pc = "write",
                 !.allUpdates = p.allUpdates,
                 !.updatedFeature = p.updatedFeature,
                 !.pendingLinks = p.experimentsAdded]

\* updateFeature starts onFeatureUpdate without awaiting it and returns
\* updatedFeature (662-666); publishRevision goes on to
\* markRevisionAsPublished (1077)
ReturnUpdatedFeature(c) ==
    [Leave(c, IF c.op = "publish" THEN "markPublished" ELSE "done") EXCEPT
        !.notifications = c.notifications + 1,
        !.notifier = "running",
        !.returned = c.updatedFeature]

(***************************************************************************)
(* publishRevision (1058-1080) and applyRevisionChanges (1008-1056).       *)
(***************************************************************************)
\* CanPublish gone wrong: only a published revision is refused
CanPublishUnlessPublished(revision) == revision.status # "published"

\* the status check (1065-1067)
CanPublish(revision) == revision.status \notin {"published", "discarded"}

\* the call with revision version v holding rules and merge result r, the
\* status check, and applyRevisionChanges up to its first await
PublishRevisionWith(s, v, rules, r) ==
    LET c == [NewCall("publish") EXCEPT
                !.revision = [version |-> v, status |-> revisions[v],
                              rules |-> rules],
                !.result = r, !.date = now]
        staged == StageChanges(c.feature, c.revision, c.result, now)
    IN /\ Invoke(s)
       /\ calls' = [calls EXCEPT ![s] =
            IF ~CanPublish(c.revision)
            THEN Throw(c, "InvalidRevisionState")
            ELSE IF ~staged.hasChanges
            THEN Throw(c, "NoChanges")
            ELSE [c EXCEPT !.pc = "hasDraft", !.changes = staged.changes]]
       /\ UNCHANGED <<feature, revisions, lastPublished, experiments, safeRollouts, srPending, now>>

PublishRevision(s) ==
    \E v \in Versions : \E r \in MergeResults[v] :
        PublishRevisionWith(s, v, RevisionRules[v], r)

\* HasDraft gone wrong: the revision being published is not excluded
HasDraftUnexcluded(s) ==
    LET c == calls[s]
    IN /\ c.op = "publish" /\ c.pc = "hasDraft"
       /\ calls' = [calls EXCEPT
                      ![s].pc = "safeRollouts",
                      ![s].changes = Put(c.changes, "hasDrafts", hasDraft(revisions, {}))]
       /\ UNCHANGED <<feature, revisions, lastPublished, experiments, safeRollouts, srPending, started, now>>

\* await hasDraft(...) (1051-1053), then updateSafeRolloutStatuses up to
\* its await of getByIds
HasDraft(s) ==
    LET c == calls[s]
    IN /\ c.op = "publish" /\ c.pc = "hasDraft"
       /\ calls' = [calls EXCEPT
                      ![s].pc = "safeRollouts",
                      ![s].changes = Put(c.changes, "hasDrafts",
                                         hasDraft(revisions, {c.revision.version}))]
       /\ UNCHANGED <<feature, revisions, lastPublished, experiments, safeRollouts, srPending, started, now>>

\* getByIds resolves (982-984): every safe rollout found gets an update
\* issued, not awaited (986-1005); then updateFeature is entered (1055)
UpdateSafeRolloutStatuses(s) ==
    LET c == calls[s]
        map == safeRolloutStatusesMap(c.feature, c.revision)
        found == (DOMAIN map) \cap (DOMAIN safeRollouts)
        issued == {[id |-> id,
                    updates |-> safeRolloutUpdates(safeRollouts[id], map[id], now)] :
                   id \in found}
    IN /\ c.op = "publish" /\ c.pc = "safeRollouts"
       /\ srPending' = srPending \cup issued
       /\ calls' = [calls EXCEPT ![s] =
                      EnterUpdateFeature(
                          [c EXCEPT !.srUpdates = Cardinality(found)], c.changes)]
       /\ UNCHANGED <<feature, revisions, lastPublished, experiments, safeRollouts, started, now>>

\* a safeRollout.update issued earlier reaches the store
SafeRolloutUpdate ==
    \E u \in srPending :
        /\ safeRollouts' = [safeRollouts EXCEPT ![u.id] = Spread(@, u.updates)]
        /\ srPending' = srPending \ {u}
        /\ UNCHANGED <<feature, revisions, lastPublished, experiments, calls, started, now>>

\* markRevisionAsPublished (FeatureRevisionModel) sets the stored status
MarkRevisionAsPublished(s) ==
    LET c == calls[s]
    IN /\ c.op = "publish" /\ c.pc = "markPublished"
       /\ revisions' = [revisions EXCEPT ![c.revision.version] = "published"]
       /\ lastPublished' = c.revision.version
       /\ calls' = [calls EXCEPT ![s].pc = "done",
                                 ![s].revisionWrites = c.revisionWrites + 1]
       /\ UNCHANGED <<feature, experiments, safeRollouts, srPending, started, now>>

(***************************************************************************)
(* updateFeature (615-667) after its synchronous part.                     *)
(***************************************************************************)
\* UpdateOne gone wrong: the settings are written environment by
\* environment, those the call did not stage are left as stored
UpdateOnePerEnvironment(s) ==
    LET c == calls[s]
        set == Spread(feature, c.allUpdates)
        doc == IF "environmentSettings" \in DOMAIN c.allUpdates
               THEN [set EXCEPT !.environmentSettings =
                        [e \in DOMAIN feature.environmentSettings \cup
                                (DOMAIN c.allUpdates.environmentSettings \cap DOMAIN c.result.rules) |->
                            IF e \in DOMAIN c.result.rules /\ e \in DOMAIN c.allUpdates.environmentSettings
                            THEN c.allUpdates.environmentSettings[e]
                            ELSE feature.environmentSettings[e]]]
               ELSE set
        written == [c EXCEPT !.stored = doc, !.writes = c.writes + 1]
    IN /\ c.pc = "write"
       /\ feature' = doc
       /\ calls' = [calls EXCEPT ![s] =
                      IF c.pendingLinks = {}
                      THEN ReturnUpdatedFeature(written)
                      ELSE [written EXCEPT !.pc = "link"]]
       /\ UNCHANGED <<revisions, lastPublished, experiments, safeRollouts, srPending, started, now>>

\* FeatureModel.updateOne({organization, id}, {$set: allUpdates}) (647-652)
UpdateOne(s) ==
    LET c == calls[s]
        doc == Spread(feature, c.allUpdates)
        written == [c EXCEPT !.stored = doc, !.writes = c.writes + 1]
    IN /\ c.pc = "write"
       /\ feature' = doc
       /\ calls' = [calls EXCEPT ![s] =
                      IF c.pendingLinks = {}
                      THEN ReturnUpdatedFeature(written)
                      ELSE [written EXCEPT !.pc = "link"]]
       /\ UNCHANGED <<revisions, lastPublished, experiments, safeRollouts, srPending, started, now>>

\* one addLinkedFeatureToExperiment of the Promise.all (654-660)
AddLinkedFeatureToExperiment(s) ==
    LET c == calls[s]
    IN /\ c.pc = "link"
       /\ \E exp \in c.pendingLinks :
            LET linked == [c EXCEPT !.pendingLinks = c.pendingLinks \ {exp},
                                    !.linked = c.linked \cup {exp}]
            IN /\ experiments' = experiments \cup {exp}
               /\ calls' = [calls EXCEPT ![s] =
                              IF linked.pendingLinks = {}
                              THEN ReturnUpdatedFeature(linked)
                              ELSE linked]
       /\ UNCHANGED <<feature, revisions, lastPublished, safeRollouts, srPending, started, now>>

\* an awaited call to a store or collaborator rejects: the operation throws
AwaitedSteps ==
    {"hasDraft", "safeRollouts", "write", "link", "markPublished", "addToSet",
     "find", "contexts", "updateRevision",
     "create", "deleteRevisions", "initialRevision", "linkCreated"}

\* Fail gone wrong: a publishRevision whose applyRevisionChanges rejects
\* goes on to markRevisionAsPublished
FailThenMark(s) ==
    /\ calls[s].pc \in AwaitedSteps
    /\ calls' = [calls EXCEPT ![s] =
            IF calls[s].op = "publish" /\ calls[s].pc # "markPublished"
            THEN Leave(calls[s], "markPublished")
            ELSE Throw(calls[s], "CollaboratorError")]
    /\ UNCHANGED <<feature, revisions, lastPublished, experiments, safeRollouts, srPending, started, now>>

Fail(s) ==
    /\ calls[s].pc \in AwaitedSteps
    /\ calls' = [calls EXCEPT ![s] = Throw(calls[s], "CollaboratorError")]
    /\ UNCHANGED <<feature, revisions, lastPublished, experiments, safeRollouts, srPending, started, now>>

(***************************************************************************)
(* toggleMultipleEnvironments (731-764).                                   *)
(***************************************************************************)
ToggleMultipleEnvironments(s) ==
    \E t \in ToggleMaps :
        LET c == [NewCall("toggle") EXCEPT !.toggles = t]
            loop == ToggleLoop(c.toggles,
                               [feature |-> c.feature, featureCopy |-> c.feature,
                                hasChanges |-> FALSE, error |-> ""])
            entered == [c EXCEPT !.feature = loop.feature]
        IN /\ Invoke(s)
           /\ calls' = [calls EXCEPT ![s] =
                IF loop.error # ""
                THEN Throw(entered, loop.error)
                ELSE IF loop.hasChanges
                THEN EnterUpdateFeature(entered,
                        [environmentSettings |-> loop.featureCopy.environmentSettings])
                ELSE [Leave(entered, "done") EXCEPT !.returned = loop.featureCopy]]
           /\ UNCHANGED <<feature, revisions, lastPublished, experiments, safeRollouts, srPending, now>>

(***************************************************************************)
(* archiveFeature (704-710): updateFeature called directly.                *)
(***************************************************************************)
ArchiveFeature(s) ==
    \E b \in BOOLEAN :
        LET c == [NewCall("archive") EXCEPT !.isArchived = b]
        IN /\ Invoke(s)
           /\ calls' = [calls EXCEPT ![s] = EnterUpdateFeature(c, [archived |-> b])]
           /\ UNCHANGED <<feature, revisions, lastPublished, experiments, safeRollouts, srPending, now>>

(***************************************************************************)
(* addLinkedExperiment (669-683).                                          *)
(***************************************************************************)
AddLinkedExperiment(s) ==
    \E exp \in ExperimentIds :
        LET c == [NewCall("addLinkedExperiment") EXCEPT !.experimentId = exp]
        IN /\ Invoke(s)
           /\ calls' = [calls EXCEPT ![s] =
                IF exp \in Range(c.feature.linkedExperiments)
                THEN Leave(c, "done")
                ELSE [c EXCEPT !.pc = "addToSet"]]
           /\ UNCHANGED <<feature, revisions, lastPublished, experiments, safeRollouts, srPending, now>>

\* FeatureModel.updateOne(..., {$addToSet: {linkedExperiments}}) (675-682)
AddToSet(s) ==
    LET c == calls[s]
        doc == [feature EXCEPT !.linkedExperiments = SetAdd(@, c.experimentId)]
    IN /\ c.op = "addLinkedExperiment" /\ c.pc = "addToSet"
       /\ feature' = doc
       /\ calls' = [calls EXCEPT ![s].pc = "done", ![s].stored = doc,
                                 ![s].writes = c.writes + 1]
       /\ UNCHANGED <<revisions, lastPublished, experiments, safeRollouts, srPending, started, now>>

(***************************************************************************)
(* onFeatureUpdate (585-613), started by updateFeature and not awaited     *)
(* (662-664).                                                              *)
(***************************************************************************)
\* the awaited steps of onFeatureUpdate, for an organization with the
\* Vercel integration
NotifierSteps ==
    {"getAllPayloadSafeRollouts", "refreshSDKPayloadCache",
     "logFeatureUpdatedEvent", "updateVercelExperimentationItemFromFeature"}

\* the catch handler gone wrong: the error is thrown in the operation
RethrowNotifierError(c, step) ==
    [Throw(c, "NotifierError") EXCEPT !.notifier = "failed"]

\* .catch((e) => logger.error(...)) (662-664)
CatchNotifierError(c, step) == [c EXCEPT !.notifier = "failed", !.logged = step]

\* every step of onFeatureUpdate resolves
OnFeatureUpdate(s) ==
    /\ calls[s].notifier = "running"
    /\ calls' = [calls EXCEPT ![s].notifier = "done"]
    /\ UNCHANGED <<feature, revisions, lastPublished, experiments, safeRollouts, srPending, started, now>>

\* a step of onFeatureUpdate rejects
OnFeatureUpdateRejected(s) ==
    /\ calls[s].notifier = "running"
    /\ \E step \in NotifierSteps :
         calls' = [calls EXCEPT ![s] = CatchNotifierError(calls[s], step)]
    /\ UNCHANGED <<feature, revisions, lastPublished, experiments, safeRollouts, srPending, started, now>>

\* time passes
Tick ==
    /\ now < MaxNow
    /\ now' = now + 1
    /\ UNCHANGED <<feature, revisions, lastPublished, experiments, safeRollouts, srPending, calls, started>>

Next ==
    \/ \E s \in Slots : PublishRevision(s)
    \/ \E s \in Slots : HasDraft(s)
    \/ \E s \in Slots : UpdateSafeRolloutStatuses(s)
    \/ SafeRolloutUpdate
    \/ \E s \in Slots : MarkRevisionAsPublished(s)
    \/ \E s \in Slots : UpdateOne(s)
    \/ \E s \in Slots : AddLinkedFeatureToExperiment(s)
    \/ \E s \in Slots : Fail(s)
    \/ \E s \in Slots : ToggleMultipleEnvironments(s)
    \/ \E s \in Slots : ArchiveFeature(s)
    \/ \E s \in Slots : AddLinkedExperiment(s)
    \/ \E s \in Slots : AddToSet(s)

\* the operations while the clock stands still
Spec == Init /\ [][Next]_vars

\* the operations as time passes
SpecClock == Init /\ [][Next \/ Tick]_vars

(***************************************************************************)
(* getLinkedExperiments (1082-1103) applied to a feature, and applied      *)
(* again to the feature with linkedExperiments replaced by the result, as  *)
(* updateFeature does (630-638).                                           *)
(***************************************************************************)
LinkedInputs ==
    UNION {[1..n -> {"X", "Y"}] : n \in 0..MaxLinks}

RuleInputs ==
    {<<>>, <<ruleA>>, <<ruleX, ruleA, ruleY>>, <<ruleY, ruleX, ruleY>>}

\* features with settings for production, for staging and for an
\* environment the organization no longer has, and none for dev
FeatureInputs ==
    {[InitialFeature EXCEPT
        !.linkedExperiments = l,
        !.environmentSettings =
            [production |-> [enabled |-> TRUE, rules |-> p],
             staging |-> [enabled |-> FALSE, rules |-> q],
             legacy |-> [enabled |-> TRUE, rules |-> r]]] :
     l \in LinkedInputs, p \in RuleInputs, q \in RuleInputs,
     r \in {<<>>, <<ruleZ, ruleX>>}}

InitLinks ==
    /\ feature \in FeatureInputs
    /\ revisions = <<"published", "draft", "draft", "discarded">>
    /\ lastPublished = 1
    /\ experiments = {"X"}
    /\ safeRollouts = [sr1 |-> [status |-> "running", startedAt |-> NoDate,
                                nextSnapshotAttempt |-> NoDate,
                                rampUpNextUpdate |-> NoDate]]
    /\ srPending = {}
    /\ calls = [s \in Slots |-> IdleCall]
    /\ started = 0
    /\ now = 0

GetLinkedExperiments ==
    /\ calls["s1"].pc = "idle"
    /\ calls' = [calls EXCEPT !["s1"] =
            [IdleCall EXCEPT !.op = "getLinkedExperiments", !.pc = "applied",
                             !.given = feature, !.feature = feature,
                             !.links = getLinkedExperiments(feature, OrgEnvs)]]
    /\ UNCHANGED <<feature, revisions, lastPublished, experiments, safeRollouts, srPending, started, now>>

GetLinkedExperimentsAgain ==
    LET c == calls["s1"]
        updatedFeature == Put(c.feature, "linkedExperiments", c.links)
    IN /\ c.op = "getLinkedExperiments" /\ c.pc = "applied"
       /\ calls' = [calls EXCEPT !["s1"].pc = "done",
                                 !["s1"].updatedFeature = updatedFeature,
                                 !["s1"].linksAgain = getLinkedExperiments(updatedFeature, OrgEnvs)]
       /\ UNCHANGED <<feature, revisions, lastPublished, experiments, safeRollouts, srPending, started, now>>

NextLinks == GetLinkedExperiments \/ GetLinkedExperimentsAgain

SpecLinks == InitLinks /\ [][NextLinks]_vars

(***************************************************************************)
(* getScheduledFeaturesToUpdate (685-702).                                 *)
(***************************************************************************)
\* the filter gone wrong: $lte
IsDueOrNow(doc, date) ==
    doc.nextScheduledUpdate # NoDate /\ doc.nextScheduledUpdate <= date

\* { nextScheduledUpdate: { $exists: true, $lt: date } } (687-690); a
\* field that holds no date does not compare
IsDue(doc, date) ==
    doc.nextScheduledUpdate # NoDate /\ doc.nextScheduledUpdate < date

\* the query is built, with new Date(), and find is called
GetScheduledFeaturesToUpdate(s) ==
    /\ Invoke(s)
    /\ calls' = [calls EXCEPT ![s] =
            [IdleCall EXCEPT !.op = "scan", !.pc = "find", !.date = now]]
    /\ UNCHANGED <<feature, revisions, lastPublished, experiments, safeRollouts, srPending, now>>

\* find resolves with the documents that match now
Find(s) ==
    LET c == calls[s]
    IN /\ c.op = "scan" /\ c.pc = "find"
       /\ calls' = [calls EXCEPT
                      ![s].pc = "contexts",
                      ![s].stored = feature,
                      ![s].features = IF IsDue(feature, c.date) THEN <<feature>> ELSE <<>>]
       /\ UNCHANGED <<feature, revisions, lastPublished, experiments, safeRollouts, srPending, started, now>>

\* the contexts of the organizations are there: the documents are returned
\* as interfaces (699-701)
ReturnScheduledFeatures(s) ==
    LET c == calls[s]
    IN /\ c.op = "scan" /\ c.pc = "contexts"
       /\ calls' = [calls EXCEPT
                      ![s].pc = "done",
                      ![s].scheduled = [i \in DOMAIN c.features |-> toInterface(c.features[i])]]
       /\ UNCHANGED <<feature, revisions, lastPublished, experiments, safeRollouts, srPending, started, now>>

\* the stored feature with each value nextScheduledUpdate may hold
InitScan ==
    /\ feature \in {[InitialFeature EXCEPT !.nextScheduledUpdate = d] :
                      d \in {NoDate} \cup (0..MaxNow)}
    /\ revisions = <<"published", "draft", "draft", "discarded">>
    /\ lastPublished = 1
    /\ experiments = {"X"}
    /\ safeRollouts = [sr1 |-> [status |-> "running", startedAt |-> NoDate,
                                nextSnapshotAttempt |-> NoDate,
                                rampUpNextUpdate |-> NoDate]]
    /\ srPending = {}
    /\ calls = [s \in Slots |-> IdleCall]
    /\ started = 0
    /\ now = 0

NextScan ==
    \/ \E s \in Slots : GetScheduledFeaturesToUpdate(s)
    \/ \E s \in Slots : Find(s)
    \/ \E s \in Slots : ReturnScheduledFeatures(s)
    \/ \E s \in Slots : Fail(s)
    \/ Tick

\* the scans of the scheduler as time passes
SpecScan == InitScan /\ [][NextScan]_vars

NextSchedule ==
    \/ \E s \in Slots : PublishRevision(s)
    \/ \E s \in Slots : HasDraft(s)
    \/ \E s \in Slots : UpdateSafeRolloutStatuses(s)
    \/ SafeRolloutUpdate
    \/ \E s \in Slots : UpdateOne(s)
    \/ \E s \in Slots : AddLinkedFeatureToExperiment(s)
    \/ \E s \in Slots : MarkRevisionAsPublished(s)
    \/ Tick

\* the publishes of the revisions as time passes
SpecSchedule == Init /\ [][NextSchedule]_vars

(***************************************************************************)
(* editFeatureRule (809-841).  changes.rules is the rules object of the    *)
(* revision argument itself: what is assigned into it is assigned into the *)
(* caller's revision.                                                      *)
(***************************************************************************)
\* the rules a draft revision may hold when its rule is edited
EditableRules ==
    { EmptyMap,
      [production |-> <<ruleA>>],
      [production |-> <<ruleA, ruleX>>, staging |-> <<ruleY>>] }

\* the partial rules an edit may carry
RuleUpdates == { [experimentId |-> "Z"], [scheduleRules |-> <<1, 2>>] }

\* changes.rules[environment] = changes.rules[environment] || [] (819)
EnsureRuleList(rules, environment) ==
    Put(rules, environment,
        IF environment \in DOMAIN rules THEN rules[environment] ELSE <<>>)

\* changes.rules[environment][i], i counting from 0, is a rule (820)
HasRule(rules, environment, i) == i + 1 \in DOMAIN rules[environment]

\* the synchronous part of editFeatureRule (817-827)
EditFeatureRule(s) ==
    \E rules \in EditableRules : \E environment \in {"production", "staging"} :
    \E i \in 0..MaxIndex : \E updates \in RuleUpdates :
        LET loaded == [version |-> 2, status |-> revisions[2], rules |-> rules]
            ensured == EnsureRuleList(rules, environment)
            c == [NewCall("editRule") EXCEPT
                    !.loaded = loaded,
                    !.revision = [loaded EXCEPT !.rules = ensured]]
            edited == [ensured EXCEPT
                          ![environment][i + 1] = Spread(@, updates)]
        IN /\ Invoke(s)
           /\ calls' = [calls EXCEPT ![s] =
                IF ~HasRule(ensured, environment, i)
                THEN Throw(c, "Unknown rule")
                ELSE [c EXCEPT !.pc = "updateRevision",
                               !.revision.rules = edited]]
           /\ UNCHANGED <<feature, revisions, lastPublished, experiments, safeRollouts, srPending, now>>

\* updateRevision (FeatureRevisionModel) writes the rules and the status
UpdateRevision(s) ==
    LET c == calls[s]
    IN /\ c.op = "editRule" /\ c.pc = "updateRevision"
       /\ calls' = [calls EXCEPT ![s] =
                      [Leave(c, "done") EXCEPT
                          !.revisionWrites = c.revisionWrites + 1,
                          !.revisionStored = c.revision]]
       /\ UNCHANGED <<feature, revisions, lastPublished, experiments, safeRollouts, srPending, started, now>>

NextRules ==
    \/ \E s \in Slots : EditFeatureRule(s)
    \/ \E s \in Slots : UpdateRevision(s)
    \/ \E s \in Slots : Fail(s)

\* edits of the rules of a draft revision
SpecRules == Init /\ [][NextRules]_vars

(***************************************************************************)
(* migrateDraft (276-301).  The feature argument is the document as the    *)
(* caller read it; createRevisionFromLegacyDraft (FeatureRevisionModel)    *)
(* adds a draft revision or rejects.                                       *)
(***************************************************************************)
\* the revisions the store holds for the feature before any migration
InitialRevisions == <<"published", "draft", "draft", "discarded">>

\* features of the older single-draft model, migrated or not
LegacyFeatures ==
    {Spread(InitialFeature, [hasDrafts |-> h, legacyDraft |-> d,
                             legacyDraftMigrated |-> m]) :
        h \in BOOLEAN, d \in BOOLEAN, m \in BOOLEAN}

InitMigrate ==
    /\ feature \in LegacyFeatures
    /\ revisions = InitialRevisions
    /\ lastPublished = 1
    /\ experiments = {"X"}
    /\ safeRollouts = [sr1 |-> [status |-> "running", startedAt |-> NoDate,
                                nextSnapshotAttempt |-> NoDate,
                                rampUpNextUpdate |-> NoDate]]
    /\ srPending = {}
    /\ calls = [s \in Slots |-> IdleCall]
    /\ started = 0
    /\ now = 0

\* the guard (280) and the call of createRevisionFromLegacyDraft (283)
MigrateDraft(s) ==
    LET c == NewCall("migrateDraft")
    IN /\ Invoke(s)
       /\ calls' = [calls EXCEPT ![s] =
            IF ~c.feature.legacyDraft \/ c.feature.legacyDraftMigrated
            THEN Leave(c, "done")
            ELSE [c EXCEPT !.pc = "createRevision"]]
       /\ UNCHANGED <<feature, revisions, lastPublished, experiments, safeRollouts, srPending, now>>

\* createRevisionFromLegacyDraft resolves: the draft is stored, and the
\* updateOne of 284-295 is issued
CreateRevisionFromLegacyDraft(s) ==
    LET c == calls[s]
    IN /\ c.op = "migrateDraft" /\ c.pc = "createRevision"
       /\ revisions' = Append(revisions, "draft")
       /\ calls' = [calls EXCEPT ![s].pc = "setMigrated",
                                 ![s].revisionWrites = c.revisionWrites + 1]
       /\ UNCHANGED <<feature, lastPublished, experiments, safeRollouts, srPending, started, now>>

\* the updateOne resolves (284-295) and the draft is returned (296)
SetLegacyDraftMigrated(s) ==
    LET c == calls[s]
    IN /\ c.op = "migrateDraft" /\ c.pc = "setMigrated"
       /\ feature' = Spread(feature, [legacyDraftMigrated |-> TRUE, hasDrafts |-> TRUE])
       /\ calls' = [calls EXCEPT ![s] =
                      [Leave(c, "done") EXCEPT !.writes = c.writes + 1,
                                               !.stored = feature']]
       /\ UNCHANGED <<revisions, lastPublished, experiments, safeRollouts, srPending, started, now>>

\* either await rejects: the error is logged and null is returned
\* (297-300)
CatchMigrateError(s) ==
    LET c == calls[s]
    IN /\ c.op = "migrateDraft" /\ c.pc \in {"createRevision", "setMigrated"}
       /\ calls' = [calls EXCEPT ![s] = [Leave(c, "done") EXCEPT !.logged = c.pc]]
       /\ UNCHANGED <<feature, revisions, lastPublished, experiments, safeRollouts, srPending, started, now>>

NextMigrate ==
    \/ \E s \in Slots : MigrateDraft(s)
    \/ \E s \in Slots : CreateRevisionFromLegacyDraft(s)
    \/ \E s \in Slots : SetLegacyDraftMigrated(s)
    \/ \E s \in Slots : CatchMigrateError(s)

\* migrations of the legacy draft of a feature
SpecMigrate == InitMigrate /\ [][NextMigrate]_vars

(***************************************************************************)
(* createFeature (317-354).  The feature id is unique within the           *)
(* organization, so FeatureModel.create rejects while the feature exists;  *)
(* the revision store may still hold revisions of a deleted feature with   *)
(* the same id.                                                            *)
(***************************************************************************)
\* the documents a caller may ask to create
CreateData ==
    {[InitialFeature EXCEPT !.environmentSettings = es, !.linkedExperiments = le,
                            !.hasDrafts = FALSE] :
        es \in { [production |-> [enabled |-> TRUE, rules |-> <<ruleA>>]],
                 [production |-> [enabled |-> TRUE, rules |-> <<ruleX>>],
                  staging |-> [enabled |-> FALSE, rules |-> <<ruleZ>>]],
                 [production |-> [enabled |-> TRUE, rules |-> <<ruleX>>],
                  legacy |-> [enabled |-> TRUE, rules |-> <<ruleY>>]] },
        le \in { <<>>, <<"Z">> }}

\* the revisions a deleted feature of the same id may have left behind
LeftoverRevisions == { <<>>, <<"published">>, <<"published", "draft">> }

InitCreate ==
    /\ feature = NoFeature
    /\ revisions \in LeftoverRevisions
    /\ lastPublished = 0
    /\ experiments = {}
    /\ safeRollouts = [sr1 |-> [status |-> "running", startedAt |-> NoDate,
                                nextSnapshotAttempt |-> NoDate,
                                rampUpNextUpdate |-> NoDate]]
    /\ srPending = {}
    /\ calls = [s \in Slots |-> IdleCall]
    /\ started = 0
    /\ now = 0

\* CreateFeature gone wrong: the rules of every environment of the data
\* are scanned for experiments
CreateFeatureLinkingAll(s) ==
    \E data \in CreateData :
        /\ Invoke(s)
        /\ calls' = [calls EXCEPT ![s] =
                [IdleCall EXCEPT
                    !.op = "createFeature", !.pc = "create", !.given = data,
                    !.feature = [data EXCEPT !.linkedExperiments =
                                    getLinkedExperiments(data, AllEnvs)]]]
        /\ UNCHANGED <<feature, revisions, lastPublished, experiments, safeRollouts, srPending, now>>

\* getLinkedExperiments and the call of FeatureModel.create (323-330)
CreateFeature(s) ==
    \E data \in CreateData :
        /\ Invoke(s)
        /\ calls' = [calls EXCEPT ![s] =
                [IdleCall EXCEPT
                    !.op = "createFeature", !.pc = "create", !.given = data,
                    !.feature = [data EXCEPT !.linkedExperiments =
                                    getLinkedExperiments(data, OrgEnvs)]]]
        /\ UNCHANGED <<feature, revisions, lastPublished, experiments, safeRollouts, srPending, now>>

\* FeatureModel.create resolves, or rejects because the id is taken
FeatureModelCreate(s) ==
    LET c == calls[s]
    IN /\ c.op = "createFeature" /\ c.pc = "create"
       /\ IF feature = NoFeature
          THEN /\ feature' = c.feature
               /\ calls' = [calls EXCEPT ![s].pc = "deleteRevisions",
                                         ![s].stored = c.feature,
                                         ![s].writes = c.writes + 1]
          ELSE /\ feature' = feature
               /\ calls' = [calls EXCEPT ![s] = Throw(c, "DuplicateKey")]
       /\ UNCHANGED <<revisions, lastPublished, experiments, safeRollouts, srPending, started, now>>

\* deleteAllRevisionsForFeature resolves (334)
DeleteAllRevisionsForFeature(s) ==
    LET c == calls[s]
    IN /\ c.op = "createFeature" /\ c.pc = "deleteRevisions"
       /\ revisions' = <<>>
       /\ calls' = [calls EXCEPT ![s].pc = "initialRevision",
                                 ![s].deleted = Len(revisions)]
       /\ UNCHANGED <<feature, lastPublished, experiments, safeRollouts, srPending, started, now>>

\* onFeatureCreate is started without being awaited and createFeature
\* returns (350-353)
ReturnCreated(c) ==
    [c EXCEPT !.pc = "done", !.notifications = c.notifications + 1,
              !.notifier = "running", !.pendingLinks = {}]

\* createInitialRevision resolves (336-341): the revision of the created
\* feature is stored, published, as its version 1
CreateInitialRevision(s) ==
    LET c == calls[s]
        created == [c EXCEPT !.revisionWrites = c.revisionWrites + 1,
                             !.pendingLinks = Range(c.feature.linkedExperiments)]
    IN /\ c.op = "createFeature" /\ c.pc = "initialRevision"
       /\ revisions' = Append(revisions, "published")
       /\ lastPublished' = 1
       /\ calls' = [calls EXCEPT ![s] =
                      IF created.pendingLinks = {}
                      THEN ReturnCreated(created)
                      ELSE [created EXCEPT !.pc = "linkCreated"]]
       /\ UNCHANGED <<feature, experiments, safeRollouts, srPending, started, now>>

\* one addLinkedFeatureToExperiment of the Promise.all (343-349)
LinkCreatedFeature(s) ==
    LET c == calls[s]
    IN /\ c.op = "createFeature" /\ c.pc = "linkCreated"
       /\ \E exp \in c.pendingLinks :
            LET linked == [c EXCEPT !.pendingLinks = c.pendingLinks \ {exp},
                                    !.linked = c.linked \cup {exp}]
            IN /\ experiments' = experiments \cup {exp}
               /\ calls' = [calls EXCEPT ![s] =
                              IF linked.pendingLinks = {}
                              THEN ReturnCreated(linked)
                              ELSE linked]
       /\ UNCHANGED <<feature, revisions, lastPublished, safeRollouts, srPending, started, now>>

NextCreate ==
    \/ \E s \in Slots : CreateFeature(s)
    \/ \E s \in Slots : FeatureModelCreate(s)
    \/ \E s \in Slots : DeleteAllRevisionsForFeature(s)
    \/ \E s \in Slots : CreateInitialRevision(s)
    \/ \E s \in Slots : LinkCreatedFeature(s)
    \/ \E s \in Slots : Fail(s)

\* creations of a feature whose id an earlier, deleted feature had
SpecCreate == InitCreate /\ [][NextCreate]_vars

\* revisions that hold safe-rollout rules, and the merge results computed
\* for them
RolloutRevisionRules ==
    << [production |-> <<ruleS>>, staging |-> <<ruleU>>],
       [production |-> <<ruleR>>],
       [production |-> <<ruleS>>, staging |-> <<ruleB>>],
       EmptyMap >>

RolloutMergeResults ==
    << { MergeResult("b", EmptyMap) },
       { MergeResult("b", EmptyMap) },
       { MergeResult("b", EmptyMap) },
       { MergeResult("b", EmptyMap) } >>

\* the safe rollouts as stored: not started, or started at time 0
StoredRollouts ==
    {[status |-> "running", startedAt |-> d, nextSnapshotAttempt |-> d,
      rampUpNextUpdate |-> d] : d \in {NoDate, 0}}

InitRollouts ==
    /\ feature = InitialFeature
    /\ revisions = <<"draft", "draft", "draft", "discarded">>
    /\ lastPublished = 1
    /\ experiments = {"X"}
    /\ safeRollouts \in [{"sr1", "sr2"} -> StoredRollouts]
    /\ srPending = {}
    /\ calls = [s \in Slots |-> IdleCall]
    /\ started = 0
    /\ now = 0

PublishRollouts(s) ==
    \E v \in Versions : \E r \in RolloutMergeResults[v] :
        PublishRevisionWith(s, v, RolloutRevisionRules[v], r)

NextRollouts ==
    \/ \E s \in Slots : PublishRollouts(s)
    \/ \E s \in Slots : HasDraft(s)
    \/ \E s \in Slots : UpdateSafeRolloutStatuses(s)
    \/ SafeRolloutUpdate
    \/ Tick

\* publishes of revisions with safe-rollout rules, up to the updates of
\* the safe rollouts
SpecRollouts == InitRollouts /\ [][NextRollouts]_vars

NextNotifier ==
    \/ \E s \in Slots : ArchiveFeature(s)
    \/ \E s \in Slots : ToggleMultipleEnvironments(s)
    \/ \E s \in Slots : UpdateOne(s)
    \/ \E s \in Slots : Fail(s)
    \/ \E s \in Slots : OnFeatureUpdate(s)
    \/ \E s \in Slots : OnFeatureUpdateRejected(s)

\* the callers of updateFeature and the notifiers they started
SpecNotifier == Init /\ [][NextNotifier]_vars

(***************************************************************************)
(* What the claims speak of.                                               *)
(***************************************************************************)
EnabledIn(f, e) ==
    IF e \in DOMAIN f.environmentSettings THEN f.environmentSettings[e].enabled ELSE FALSE

RulesIn(f, e) ==
    IF e \in DOMAIN f.environmentSettings THEN f.environmentSettings[e].rules ELSE <<>>

\* the settings of an environment, as the set of at most one settings object
SettingsIn(f, e) ==
    IF e \in DOMAIN f.environmentSettings THEN {f.environmentSettings[e]} ELSE {}

\* the call has written nothing and notified nobody
NoEffects(c) ==
    /\ c.writes = 0
    /\ c.notifications = 0
    /\ c.linked = {}
    /\ c.revisionWrites = 0
    /\ c.srUpdates = 0

Published(c) == c.op = "publish" /\ c.pc = "done"

\* the environments whose rules a publish replaces, were it every
\* environment of the merge result
Replaced(c, touched) ==
    /\ c.returned.version = c.revision.version
    /\ c.stored.version = c.revision.version
    /\ \A e \in Range(AllEnvs) :
         IF e \in touched
         THEN /\ e \in DOMAIN c.returned.environmentSettings
              /\ c.returned.environmentSettings[e].rules = c.result.rules[e]
              /\ e \in DOMAIN c.stored.environmentSettings
              /\ c.stored.environmentSettings[e].rules = c.result.rules[e]
         ELSE SettingsIn(c.returned, e) = SettingsIn(c.given, e)

\* C1, as claimed: after a successful publishRevision the version is the
\* revision's, exactly the environments present in mergeResult.rules have
\* their rules replaced, and every other environment's settings are those
\* of the feature passed in.
C1_EveryResultEnvironmentReplaced ==
    \A s \in Slots :
        Published(calls[s]) => Replaced(calls[s], DOMAIN calls[s].result.rules)

\* C1, amended: after a successful publishRevision the version (returned
\* and stored) is the revision's, exactly the environments of the
\* organization present in mergeResult.rules have their rules replaced,
\* and the settings of every other environment, the environments of
\* mergeResult.rules unknown to the organization included, are those of
\* the feature passed in.
C1_OrgEnvironmentsReplaced ==
    \A s \in Slots :
        Published(calls[s]) =>
            Replaced(calls[s], validEnvs \cap DOMAIN calls[s].result.rules)

\* a publish has succeeded whose merge result replaced the rules of
\* production and also named the unknown environment
C1_Witness ==
    \E s \in Slots :
        /\ Published(calls[s])
        /\ {"production", UnknownEnv} \subseteq DOMAIN calls[s].result.rules
        /\ RulesIn(calls[s].returned, "production") # RulesIn(calls[s].given, "production")
        /\ feature.version = calls[s].revision.version

\* C2: publishRevision with a revision whose status is published or
\* discarded fails with InvalidRevisionState whatever the merge result
\* is, having written nothing: no feature write, no safe-rollout update,
\* no revision update, no experiment link and no notification.
C2_PublishedOrDiscardedRefused ==
    \A s \in Slots :
        LET c == calls[s]
        IN c.op = "publish" /\ c.revision.status \in {"published", "discarded"} =>
            /\ c.pc = "failed"
            /\ c.error = "InvalidRevisionState"
            /\ NoEffects(c)

\* a discarded revision was offered with a merge result that has changes
C2_Witness ==
    \E s \in Slots :
        /\ calls[s].op = "publish"
        /\ calls[s].revision.status = "discarded"
        /\ DOMAIN calls[s].result.rules # {}
        /\ calls[s].pc = "failed"

IsEmptyResult(r) == r.defaultValue = Undefined /\ DOMAIN r.rules = {}

\* C3, as claimed: publishRevision with an empty merge result always
\* fails with NoChanges, having written nothing.
C3_EmptyResultIsNoChanges ==
    \A s \in Slots :
        LET c == calls[s]
        IN c.op = "publish" /\ IsEmptyResult(c.result) =>
            /\ c.pc = "failed"
            /\ c.error = "NoChanges"
            /\ NoEffects(c)

\* C3, amended: publishRevision with an empty merge result always fails
\* having written nothing; the error is NoChanges when the revision is
\* neither published nor discarded (InvalidRevisionState otherwise).
C3_EmptyResultRefused ==
    \A s \in Slots :
        LET c == calls[s]
        IN c.op = "publish" /\ IsEmptyResult(c.result) =>
            /\ c.pc = "failed"
            /\ c.error = IF CanPublish(c.revision) THEN "NoChanges"
                         ELSE "InvalidRevisionState"
            /\ NoEffects(c)

\* a draft revision was offered with an empty merge result
C3_Witness ==
    \E s \in Slots :
        /\ calls[s].op = "publish"
        /\ calls[s].revision.status = "draft"
        /\ IsEmptyResult(calls[s].result)
        /\ calls[s].error = "NoChanges"

\* C4, as claimed: in every state the stored feature's version is the
\* version of the revision marked published most recently.
C4_VersionIsLastPublished == feature.version = lastPublished

\* C5, as claimed: when a call of updateFeature (directly, or through
\* toggleMultipleEnvironments or publishRevision) has ended, by returning
\* or by throwing, onFeatureUpdate was invoked once for every write of the
\* feature document the call committed.
C5_NotifiedOncePerWrite ==
    \A s \in Slots :
        LET c == calls[s]
        IN c.op \in {"publish", "toggle", "archive"} /\ c.pc \in {"done", "failed"} =>
            c.notifications = c.writes

\* C6, as claimed: no step of any call, interleaved with the others or
\* not, removes an element from the stored linkedExperiments.
C6_LinkedExperimentsNeverShrink ==
    [][Range(feature.linkedExperiments) \subseteq Range(feature'.linkedExperiments)]_vars

HasUnknownKey(toggles) == \E i \in DOMAIN toggles : toggles[i][1] \notin validEnvs

\* C7: toggleMultipleEnvironments with a toggles map that has a key which
\* is no environment of the organization fails with InvalidEnvironment,
\* having written nothing and notified nobody, whatever the other keys.
C7_UnknownEnvironmentRefused ==
    \A s \in Slots :
        LET c == calls[s]
        IN c.op = "toggle" /\ HasUnknownKey(c.toggles) =>
            /\ c.pc = "failed"
            /\ c.error = "InvalidEnvironment"
            /\ NoEffects(c)

\* a toggles map was refused that also has a known environment whose
\* desired state differs from the current one
C7_Witness ==
    \E s \in Slots :
        LET c == calls[s]
        IN /\ c.op = "toggle" /\ c.pc = "failed"
           /\ HasUnknownKey(c.toggles)
           /\ \E i \in DOMAIN c.toggles :
                /\ c.toggles[i][1] \in validEnvs
                /\ c.toggles[i][2] # EnabledIn(c.given, c.toggles[i][1])

\* every key is known and asks for the state the environment is in
AsksNothing(c) ==
    \A i \in DOMAIN c.toggles :
        /\ c.toggles[i][1] \in validEnvs
        /\ c.toggles[i][2] = EnabledIn(c.given, c.toggles[i][1])

\* C8: toggleMultipleEnvironments over known environments whose desired
\* states all equal the current ones (an environment without settings is
\* disabled) returns the feature as it was passed, leaves the feature
\* passed in as it was, and writes nothing and notifies nobody.
C8_NoChangeNoWrite ==
    \A s \in Slots :
        LET c == calls[s]
        IN c.op = "toggle" /\ AsksNothing(c) =>
            /\ c.pc = "done"
            /\ c.returned = c.given
            /\ c.feature = c.given
            /\ NoEffects(c)

\* a toggle that asked nothing has returned; one of its keys is an
\* environment without settings, another one an enabled environment
C8_Witness ==
    \E s \in Slots :
        LET c == calls[s]
        IN /\ c.op = "toggle" /\ c.pc = "done" /\ AsksNothing(c)
           /\ \E i \in DOMAIN c.toggles :
                c.toggles[i][1] \notin DOMAIN c.given.environmentSettings
           /\ \E i \in DOMAIN c.toggles : c.toggles[i][2]

\* applyRevisionChanges has returned to publishRevision
Applied(c) == c.op = "publish" /\ c.pc \in {"markPublished", "done"}

\* C9: for every environment publishRevision installs rules for, the
\* enabled flag after the publish, returned and stored, is the one of the
\* feature passed in (false when the environment had no settings) and
\* the rule list is the merge result's list, whole.
C9_EnabledKeptRulesReplaced ==
    \A s \in Slots :
        LET c == calls[s]
        IN Applied(c) =>
            \A e \in validEnvs \cap DOMAIN c.result.rules :
                LET installed == [enabled |-> EnabledIn(c.given, e),
                                  rules |-> c.result.rules[e]]
                IN /\ SettingsIn(c.returned, e) = {installed}
                   /\ SettingsIn(c.stored, e) = {installed}

\* two publishes have succeeded: one replaced the rules of an enabled
\* environment by a list that has none of them, the other installed rules
\* for an environment that had no settings
C9_Witness ==
    \E s, t \in Slots :
        /\ Published(calls[s]) /\ Published(calls[t])
        /\ \E e \in validEnvs \cap DOMAIN calls[s].result.rules :
             /\ EnabledIn(calls[s].given, e)
             /\ RulesIn(calls[s].given, e) # <<>>
             /\ Range(RulesIn(calls[s].given, e)) \cap Range(RulesIn(calls[s].returned, e)) = {}
             /\ RulesIn(calls[s].returned, e) # <<>>
        /\ \E e \in validEnvs \cap DOMAIN calls[t].result.rules :
             /\ e \notin DOMAIN calls[t].given.environmentSettings
             /\ ~EnabledIn(calls[t].returned, e)

\* the state toggles asks for environment e, current when it asks nothing
Desired(toggles, e, current) ==
    IF \E i \in DOMAIN toggles : toggles[i][1] = e
    THEN (CHOOSE st \in BOOLEAN : \E i \in DOMAIN toggles : toggles[i] = <<e, st>>)
    ELSE current

\* C10: a toggleMultipleEnvironments that changes some environment and
\* returns changes nothing but the enabled flag of the environments whose
\* desired state differs from the current one: in the feature returned
\* and in the settings written, every environment has the rule list it had
\* in the feature passed in (none when it had no settings) and every other
\* environment the enabled flag it had, the other fields of the feature
\* returned are those passed in, and the feature passed in is as it was.
C10_OnlyEnabledChanges ==
    \A s \in Slots :
        LET c == calls[s]
        IN c.op = "toggle" /\ c.pc = "done" /\ c.writes > 0 =>
            /\ c.feature = c.given
            /\ c.returned.version = c.given.version
            /\ c.returned.defaultValue = c.given.defaultValue
            /\ c.returned.archived = c.given.archived
            /\ \A e \in Range(AllEnvs) :
                 /\ RulesIn(c.returned, e) = RulesIn(c.given, e)
                 /\ RulesIn(c.stored, e) = RulesIn(c.given, e)
                 /\ EnabledIn(c.returned, e) = Desired(c.toggles, e, EnabledIn(c.given, e))
                 /\ EnabledIn(c.stored, e) = Desired(c.toggles, e, EnabledIn(c.given, e))

\* a toggle has disabled an environment that has rules and enabled one
\* that had no settings
C10_Witness ==
    \E s \in Slots :
        LET c == calls[s]
        IN /\ c.op = "toggle" /\ c.pc = "done" /\ c.writes > 0
           /\ \E e \in validEnvs :
                /\ RulesIn(c.given, e) # <<>>
                /\ EnabledIn(c.given, e) /\ ~EnabledIn(c.returned, e)
           /\ \E e \in validEnvs :
                /\ e \notin DOMAIN c.given.environmentSettings
                /\ EnabledIn(c.returned, e)

\* C11, as claimed: no step lowers the version of the stored feature.
C11_VersionNeverDecreases ==
    [][feature'.version >= feature.version]_vars

\* C12, as claimed: over any interleaving of publishRevision calls,
\* markRevisionAsPublished is executed at most once for a given revision.
C12_MarkedAtMostOnce ==
    \A s, t \in Slots :
        /\ s # t
        /\ calls[s].op = "publish" /\ calls[t].op = "publish"
        /\ calls[s].revision.version = calls[t].revision.version
        => calls[s].revisionWrites + calls[t].revisionWrites <= 1

SafeRolloutIds(rules) ==
    {rules[i].safeRolloutId : i \in {j \in DOMAIN rules : rules[j].type = "safe-rollout"}}

\* the stored safe rollouts the live settings of f refer to and no
\* safe-rollout rule of the revision does
RemovedSafeRollouts(f, revision) ==
    ((UNION {SafeRolloutIds(f.environmentSettings[e].rules) : e \in DOMAIN f.environmentSettings})
        \ (UNION {SafeRolloutIds(revision.rules[e]) : e \in DOMAIN revision.rules}))
    \cap DOMAIN safeRollouts

\* C13: when publishRevision syncs the safe rollouts, an update setting
\* the status to stopped is issued for every stored safe rollout that a
\* safe-rollout rule of the live settings of the feature passed in refers
\* to and no safe-rollout rule of the revision does; and an update that
\* reaches the store sets the status it carries.
C13_RemovedSafeRolloutStopped ==
    [][ /\ \A s \in Slots :
             calls[s].pc = "safeRollouts" /\ calls'[s].pc \notin {"safeRollouts", "failed"} =>
                 \A id \in RemovedSafeRollouts(calls[s].given, calls[s].revision) :
                     \E u \in srPending' :
                         u.id = id /\ u.updates.status = "stopped"
        /\ \A u \in srPending \ srPending' :
             safeRollouts'[u.id].status = u.updates.status ]_vars

\* a publish of a revision without the safe-rollout rule the live settings
\* had has succeeded, and the safe rollout is stopped in the store
C13_Witness ==
    \E s \in Slots :
        /\ Published(calls[s])
        /\ "sr1" \in RemovedSafeRollouts(calls[s].given, calls[s].revision)
        /\ calls[s].srUpdates = 1
        /\ srPending = {}
        /\ safeRollouts["sr1"].status = "stopped"

RECURSIVE FirstOccurrences(_)
\* s without the elements that occur earlier in s
FirstOccurrences(s) ==
    IF s = <<>> THEN <<>>
    ELSE LET n == Len(s)
             front == FirstOccurrences(SubSeq(s, 1, n - 1))
         IN IF \E j \in 1..(n - 1) : s[j] = s[n] THEN front ELSE Append(front, s[n])

\* the experiment ids of the experiment-ref rules of a rule list, in order
RECURSIVE ExperimentRefs(_)
ExperimentRefs(rules) ==
    IF rules = <<>> THEN <<>>
    ELSE (IF Head(rules).type = "experiment-ref" THEN <<Head(rules).experimentId>> ELSE <<>>)
         \o ExperimentRefs(Tail(rules))

\* the same for the rule lists of the environments, in the order given
RECURSIVE EnvironmentRefs(_, _)
EnvironmentRefs(f, environments) ==
    IF environments = <<>> THEN <<>>
    ELSE ExperimentRefs(RulesIn(f, Head(environments)))
         \o EnvironmentRefs(f, Tail(environments))

\* the existing links first, then the experiments of the rules of the
\* environments, each at its first occurrence
LinksThenRefs(f, environments) ==
    FirstOccurrences(f.linkedExperiments \o EnvironmentRefs(f, environments))

Applied1(c) == c.op = "getLinkedExperiments" /\ c.pc \in {"applied", "done"}

\* C15, as claimed: the result is the existing links without duplicates
\* followed by the experiments of the experiment-ref rules of every
\* environment the feature has a rule list for.
C15_EveryEnvironmentContributes ==
    \A s \in Slots :
        Applied1(calls[s]) => calls[s].links = LinksThenRefs(calls[s].given, AllEnvs)

\* C15, amended: the result is the existing links in their order without
\* duplicates, followed by the experiment ids of the experiment-ref rules
\* of the environments passed to the function (the organization's), in
\* environment-then-rule order, each id at its first occurrence; the rules
\* of an environment that is not passed contribute nothing.
C15_PassedEnvironmentsContribute ==
    \A s \in Slots :
        Applied1(calls[s]) => calls[s].links = LinksThenRefs(calls[s].given, OrgEnvs)

\* the existing links had a duplicate, the rules of two environments
\* brought a new experiment, and a rule of the environment the
\* organization no longer has refers to an experiment that is not linked
C15_Witness ==
    \E s \in Slots :
        LET c == calls[s]
        IN /\ Applied1(c)
           /\ c.given.linkedExperiments = <<"X", "X">>
           /\ c.links = <<"X", "Y">>
           /\ RulesIn(c.given, "production") = <<ruleA>>
           /\ RulesIn(c.given, "staging") = <<ruleY, ruleX, ruleY>>
           /\ RulesIn(c.given, "legacy") = <<ruleZ, ruleX>>

\* C16: getLinkedExperiments applied to the feature whose linkedExperiments
\* was replaced by its result returns that result again, and the feature
\* it was applied to is as it was.
C16_Idempotent ==
    \A s \in Slots :
        LET c == calls[s]
        IN c.op = "getLinkedExperiments" /\ c.pc = "done" =>
            /\ c.linksAgain = c.links
            /\ c.feature = c.given
            /\ c.updatedFeature.linkedExperiments = c.links

\* the first application found new experiments and removed a duplicate
C16_Witness ==
    \E s \in Slots :
        LET c == calls[s]
        IN /\ c.op = "getLinkedExperiments" /\ c.pc = "done"
           /\ c.given.linkedExperiments = <<"Y", "Y">>
           /\ c.links = <<"Y", "X">>
           /\ c.linksAgain = <<"Y", "X">>

\* C17: getScheduledFeaturesToUpdate returns the stored feature when its
\* nextScheduledUpdate is set and strictly before the time of the call,
\* and nothing when it is that time, later, or not set; it writes nothing.
C17_StrictlyBeforeNow ==
    \A s \in Slots :
        LET c == calls[s]
        IN c.op = "scan" /\ c.pc = "done" =>
            /\ c.scheduled =
                 IF /\ c.stored.nextScheduledUpdate # NoDate
                    /\ c.stored.nextScheduledUpdate < c.date
                 THEN <<toInterface(c.stored)>>
                 ELSE <<>>
            /\ c.stored = feature
            /\ NoEffects(c)

\* one scan has returned the feature, due before the scan's time, and
\* another one, made when the feature was due at that very time, nothing
C17_Witness ==
    \E s, t \in Slots :
        /\ calls[s].op = "scan" /\ calls[s].pc = "done"
        /\ calls[t].op = "scan" /\ calls[t].pc = "done"
        /\ feature.nextScheduledUpdate # NoDate
        /\ calls[s].date > feature.nextScheduledUpdate
        /\ calls[s].scheduled # <<>>
        /\ calls[t].date = feature.nextScheduledUpdate
        /\ calls[t].scheduled = <<>>

\* C18, as claimed: a call that has not written the feature document has
\* made no linked-entity write (experiment link, safe-rollout update,
\* revision update) and has not invoked the notifier.
C18_FeatureWriteFirst ==
    \A s \in Slots :
        calls[s].writes = 0 => NoEffects(calls[s])

\* applyRevisionChanges has returned to the publishRevision: the feature
\* was written with the revision's version and the notifier was started
ChangesApplied(c) ==
    /\ c.writes = 1
    /\ c.notifications = 1
    /\ c.returned.version = c.revision.version
    /\ c.stored.version = c.revision.version

\* C19: a publishRevision that has called markRevisionAsPublished has had
\* applyRevisionChanges return before; one that failed without
\* applyRevisionChanges returning has not called it; and the status of a
\* revision changes in no step but the markRevisionAsPublished of a
\* publishRevision whose applyRevisionChanges has returned.
C19_MarkedAfterApplied ==
    [][ /\ \A s \in Slots :
             calls'[s].op = "publish" =>
                 /\ calls'[s].revisionWrites > 0 => ChangesApplied(calls'[s])
                 /\ calls'[s].pc = "failed" /\ calls'[s].returned = NoFeature =>
                        calls'[s].revisionWrites = 0
        /\ revisions' # revisions =>
             \E s \in Slots :
                 /\ calls[s].pc = "markPublished"
                 /\ ChangesApplied(calls[s])
                 /\ calls'[s].revisionWrites = 1
                 /\ revisions' = [revisions EXCEPT ![calls[s].revision.version] = "published"] ]_vars

\* a publishRevision failed while linking the experiments, after the
\* feature write: the revision is still a draft
C19_Witness ==
    \E s \in Slots :
        LET c == calls[s]
        IN /\ c.op = "publish" /\ c.pc = "failed" /\ c.error = "CollaboratorError"
           /\ c.writes = 1 /\ c.returned = NoFeature
           /\ c.revisionWrites = 0
           /\ revisions[c.revision.version] = "draft"
           /\ feature.version = c.revision.version

\* publishRevision t writes the feature in this step, after a
\* publishRevision u that was given the same snapshot wrote it
WritesAfter(t, u) ==
    /\ t # u
    /\ calls[t].op = "publish" /\ calls[u].op = "publish"
    /\ calls[t].given = calls[u].given
    /\ calls[u].writes = 1
    /\ calls[t].pc = "write"
    /\ calls'[t].writes = 1

\* C20, as claimed: when publishRevision t writes after publishRevision u
\* of the same snapshot, the stored version and environmentSettings are
\* those of t.
C20_LastWriteWins ==
    [][ \A t, u \in Slots :
            WritesAfter(t, u) =>
                /\ feature'.version = calls[t].revision.version
                /\ feature'.environmentSettings = calls[t].updatedFeature.environmentSettings ]_vars

\* C20, amended: two publishRevision calls given the same snapshot do not
\* exclude each other: the one that writes later is not refused for it,
\* the stored version is then its revision's, and when its merge result
\* staged rules the stored environmentSettings are the snapshot's with its
\* own rule lists, so that the rule lists the other publish installed for
\* environments only it changed are lost; when it staged no rules the
\* stored environmentSettings stay as they were, the other publish's.
C20_LastSettingsWriteWins ==
    [][ \A t, u \in Slots :
            /\ WritesAfter(t, u) =>
                /\ feature'.version = calls[t].revision.version
                /\ feature'.environmentSettings =
                     IF "environmentSettings" \in DOMAIN calls[t].changes
                     THEN calls[t].updatedFeature.environmentSettings
                     ELSE feature.environmentSettings
                /\ "environmentSettings" \in DOMAIN calls[t].changes =>
                     \A e \in validEnvs \ DOMAIN calls[t].result.rules :
                         SettingsIn(feature', e) = SettingsIn(calls[t].given, e)
            /\ calls'[t].op = "publish" /\ calls'[t].pc = "failed" =>
                 calls'[t].error \in
                    {"InvalidRevisionState", "NoChanges", "CollaboratorError"} ]_vars

\* two publishes of the same snapshot have both succeeded; the rules for
\* staging that the first one installed are no longer stored
C20_Witness ==
    \E t, u \in Slots :
        /\ t # u
        /\ Published(calls[t]) /\ Published(calls[u])
        /\ calls[t].given = calls[u].given
        /\ RulesIn(calls[u].stored, "staging") = <<ruleY>>
        /\ RulesIn(calls[t].given, "staging") # <<ruleY>>
        /\ "staging" \notin DOMAIN calls[t].result.rules
        /\ feature = calls[t].stored
        /\ feature.version = calls[t].revision.version
        /\ RulesIn(feature, "staging") # <<ruleY>>

\* C21, as claimed: a publishRevision that waits for the safe rollouts to
\* be fetched does not fail in its next step.
C21_SafeRolloutFailureCaught ==
    [][ \A s \in Slots :
            calls[s].op = "publish" /\ calls[s].pc = "safeRollouts" =>
                calls'[s].pc # "failed" ]_vars

\* C22: the stored environmentSettings have settings for environments of
\* the organization only.
C22_StoredKeysKnown ==
    DOMAIN feature.environmentSettings \subseteq validEnvs

\* a toggle naming the unknown environment was refused, a publish whose
\* merge result named it has succeeded, and the stored settings have more
\* environments than they had
C22_Witness ==
    \E s, t \in Slots :
        /\ calls[s].op = "toggle" /\ calls[s].error = "InvalidEnvironment"
        /\ Published(calls[t])
        /\ UnknownEnv \in DOMAIN calls[t].result.rules
        /\ feature = calls[t].stored
        /\ DOMAIN feature.environmentSettings # DOMAIN InitialFeature.environmentSettings

\* some revision other than version is neither published nor discarded
OtherDraft(version) ==
    \E v \in Versions \ {version} : revisions[v] \notin {"published", "discarded"}

EarliestAfter(f, date) ==
    LET stamps == UNION {UNION {Range(RulesIn(f, e)[i].scheduleRules) :
                                  i \in DOMAIN RulesIn(f, e)} : e \in validEnvs}
        future == {t \in stamps : t > date}
    IN IF future = {} THEN NoDate
       ELSE CHOOSE t \in future : \A u \in future : t <= u

\* C24, as claimed: the feature a successful publish returns carries, as
\* nextScheduledUpdate, the earliest schedule timestamp after the time of
\* the publish in its environment settings, and none when there is no
\* such timestamp.
C24_AlwaysRecomputed ==
    \A s \in Slots :
        LET c == calls[s]
        IN Published(c) =>
            c.returned.nextScheduledUpdate = EarliestAfter(c.returned, c.date)

\* the statuses the safe-rollout rules of a revision declare for id
DeclaredStatuses(revision, id) ==
    LET rules == UNION {Range(revision.rules[e]) : e \in DOMAIN revision.rules}
    IN {r.status : r \in {q \in rules : q.type = "safe-rollout" /\ q.safeRolloutId = id}}

StartFields == {"startedAt", "nextSnapshotAttempt", "rampUpNextUpdate"}

\* C25: when a publish has fetched the safe rollouts, an update is issued
\* for every safe rollout its revision refers to, with the status the rule
\* declares; the update carries startedAt, nextSnapshotAttempt and the
\* ramp-up nextUpdate exactly when the safe rollout fetched has no
\* startedAt and the status is running, and an update without them leaves
\* them as stored.
C25_SafeRolloutsSynced ==
    [][ /\ \A s \in Slots :
            calls[s].op = "publish" /\ calls[s].pc = "safeRollouts"
                /\ calls'[s].pc # "safeRollouts" =>
            \A id \in DOMAIN safeRollouts :
                DeclaredStatuses(calls[s].revision, id) # {} =>
                    \E u \in srPending' :
                        /\ u.id = id
                        /\ u.updates.status \in DeclaredStatuses(calls[s].revision, id)
                        /\ IF safeRollouts[id].startedAt = NoDate
                                /\ u.updates.status = "running"
                           THEN /\ StartFields \subseteq DOMAIN u.updates
                                /\ u.updates.startedAt = now
                           ELSE DOMAIN u.updates = {"status"}
        /\ safeRollouts' # safeRollouts =>
            \E u \in srPending \ srPending' :
                /\ safeRollouts'[u.id].status = u.updates.status
                /\ "startedAt" \notin DOMAIN u.updates =>
                     \A k \in StartFields : safeRollouts'[u.id][k] = safeRollouts[u.id][k]
                /\ "startedAt" \in DOMAIN u.updates =>
                     \A k \in StartFields : safeRollouts'[u.id][k] = u.updates[k]
      ]_vars

\* a started safe rollout was released by its rule and kept its start,
\* and another one was started by its rule
C25_Witness ==
    /\ safeRollouts["sr1"].status = "released"
    /\ safeRollouts["sr1"].startedAt = 0
    /\ safeRollouts["sr2"].status = "running"
    /\ safeRollouts["sr2"].startedAt = 1
    /\ \E s \in Slots : calls[s].op = "publish" /\ calls[s].srUpdates > 0

\* C26, as claimed: an editFeatureRule that has thrown "Unknown rule" has
\* written no revision and has left the caller's revision as it was
\* passed.
C26_UnknownRuleLeavesRevision ==
    \A s \in Slots :
        LET c == calls[s]
        IN c.op = "editRule" /\ c.error = "Unknown rule" =>
            /\ c.revisionWrites = 0
            /\ c.revisionStored = NoRevision
            /\ c.revision = c.loaded

\* C27, as claimed: at most one revision is ever created from the legacy
\* draft; a call given a feature that is migrated or has no legacy draft
\* creates and writes nothing; and legacyDraftMigrated is set by a call
\* only after its revision was created.
C27_MigratedOnce ==
    /\ Len(revisions) <= Len(InitialRevisions) + 1
    /\ \A s \in Slots :
         LET c == calls[s]
         IN c.op = "migrateDraft" =>
            /\ (~c.given.legacyDraft \/ c.given.legacyDraftMigrated) =>
                    c.revisionWrites = 0 /\ c.writes = 0
            /\ c.writes > 0 => c.revisionWrites = 1

\* C28: a publish of a publishable revision whose merge result has no
\* default value and rule lists for unknown environments only fails with
\* NoChanges and has no effect; a publish installs no rule list of an
\* unknown environment; and an empty rule list for an environment of the
\* organization is a change, installed as the rules of that environment.
C28_UnknownOnlyNoChanges ==
    \A s \in Slots :
        LET c == calls[s]
            known == DOMAIN c.result.rules \cap validEnvs
        IN c.op = "publish" =>
            /\ (c.result.defaultValue = Undefined /\ DOMAIN c.result.rules # {}
                    /\ known = {} /\ CanPublish(c.revision)) =>
                  c.pc = "failed" /\ c.error = "NoChanges" /\ NoEffects(c)
            /\ (known # {} /\ CanPublish(c.revision)) => c.error # "NoChanges"
            /\ Published(c) =>
                 /\ \A e \in DOMAIN c.result.rules \ validEnvs :
                        /\ e \notin DOMAIN c.returned.environmentSettings
                        /\ e \notin DOMAIN c.stored.environmentSettings
                 /\ \A e \in known :
                        c.result.rules[e] = <<>> =>
                            /\ c.returned.environmentSettings[e].rules = <<>>
                            /\ c.stored.environmentSettings[e].rules = <<>>

\* one publish with a rule list for an unknown environment only has failed
\* and another, with only an empty list for a known one, has published
C28_Witness ==
    \E s, t \in Slots :
        /\ calls[s].op = "publish" /\ calls[s].error = "NoChanges"
        /\ calls[s].result = MergeResult(Undefined, [legacy |-> <<ruleA>>])
        /\ Published(calls[t])
        /\ calls[t].result = MergeResult(Undefined, [dev |-> <<>>])
        /\ calls[t].stored.environmentSettings["dev"].rules = <<>>

\* the list updateFeature recomputes, from the feature it was given and
\* the feature it is about to return
Recomputed(c) ==
    getLinkedExperiments(
        [c.updatedFeature EXCEPT !.linkedExperiments = c.feature.linkedExperiments],
        OrgEnvs)

\* C29: an updateFeature about to write has linkedExperiments in its $set
\* exactly when the recomputed list differs from the list of the feature
\* it was given; each addLinkedFeatureToExperiment it makes is for an
\* experiment of the recomputed list that the given list lacks and that
\* it has not linked yet; and when it returns it has linked exactly those
\* experiments, none when the list is unchanged.
C29_LinksOnlyWhenChanged ==
    [][ \A s \in Slots :
            LET c == calls[s]
                d == calls'[s]
                added == Range(d.returned.linkedExperiments)
                            \ Range(d.given.linkedExperiments)
            IN /\ d.pc = "write" =>
                    /\ ("linkedExperiments" \in DOMAIN d.allUpdates)
                            <=> (Recomputed(d) # d.feature.linkedExperiments)
                    /\ "linkedExperiments" \in DOMAIN d.allUpdates =>
                            d.allUpdates.linkedExperiments = Recomputed(d)
               /\ (c.pc = "link" /\ d.linked # c.linked) =>
                    \E exp \in Range(Recomputed(c)) \ Range(c.feature.linkedExperiments) :
                        exp \notin c.linked /\ d.linked = c.linked \cup {exp}
               /\ (c.pc = "write" /\ d.pc # "failed") => d.linked = c.linked
               /\ d.notifications > 0 =>
                    /\ d.linked = added
                    /\ d.returned.linkedExperiments = d.given.linkedExperiments
                            => d.linked = {}
      ]_vars

\* a publish has returned after linking the feature to an experiment its
\* new rules refer to and the feature was not linked to
C29_Witness ==
    \E s \in Slots :
        /\ Published(calls[s])
        /\ calls[s].linked # {}
        /\ calls[s].linked = Range(calls[s].returned.linkedExperiments)
                                \ Range(calls[s].given.linkedExperiments)
        /\ calls[s].stored.linkedExperiments = calls[s].returned.linkedExperiments

\* the experiments the experiment-ref rules in the given environments of
\* f refer to
ReferencedIn(f, environments) ==
    {r.experimentId :
        r \in {q \in UNION {Range(f.environmentSettings[e].rules) :
                                e \in environments \cap DOMAIN f.environmentSettings} :
                    q.type = "experiment-ref"}}

Created(c) == c.op = "createFeature" /\ c.pc = "done"

\* createFeature keeps to its order: the initial revision is stored only
\* when no revision of the feature is left
InitialRevisionAfterCleanup ==
    \A s \in Slots :
        calls[s].op = "createFeature" /\ calls'[s].revisionWrites > calls[s].revisionWrites
            => revisions = <<>> /\ Len(revisions') = 1

\* C30, as claimed: once createFeature has completed the feature has
\* exactly one revision, stored after the revisions left over were
\* removed, and is linked to every experiment an experiment-ref rule of
\* any environment of its settings refers to.
C30_CreatedLinkedToAll ==
    [][ /\ InitialRevisionAfterCleanup
        /\ \A s \in Slots :
              Created(calls'[s]) =>
                /\ Len(revisions') = 1
                /\ ReferencedIn(calls'[s].given,
                                DOMAIN calls'[s].given.environmentSettings)
                        \subseteq experiments'
      ]_vars

\* C30, amended: the same, with the links those of the experiment-ref
\* rules in the organization's environments and of the linkedExperiments
\* the data came with, each made by the call.
C30_CreatedLinkedToOrgEnvs ==
    [][ /\ InitialRevisionAfterCleanup
        /\ \A s \in Slots :
              Created(calls'[s]) =>
                /\ Len(revisions') = 1
                /\ calls'[s].linked =
                        ReferencedIn(calls'[s].given, validEnvs)
                            \cup Range(calls'[s].given.linkedExperiments)
                /\ calls'[s].linked \subseteq experiments'
                /\ calls'[s].stored.linkedExperiments = calls'[s].feature.linkedExperiments
      ]_vars

\* a feature was created over two revisions left behind, with a rule of an
\* environment the organization does not have, and was linked
C30_Witness ==
    \E s \in Slots :
        /\ Created(calls[s])
        /\ calls[s].deleted = 2
        /\ Len(revisions) = 1
        /\ UnknownEnv \in DOMAIN calls[s].given.environmentSettings
        /\ calls[s].linked = {"X", "Z"}

====
